---- MODULE Spec2Model ----
(***************************************************************************)
(* Model of DiagnosticAgentGUI ("Diagnosis Agent.py"): the probability     *)
(* tables built from the dataset, infer_condition, select_next_question    *)
(* and the session handlers record_symptom / show_final_diagnosis.         *)
(*                                                                         *)
(* Arithmetic: in Spec and SpecFn the float64 probabilities of the program  *)
(* are modelled as exact rationals <<numerator, denominator>> in lowest    *)
(* terms; NaN is the pair <<0, 0>>.  Rounding error of float64 is not part *)
(* of the rational operators.  SpecFloat evaluates infer_condition({}) in  *)
(* float64 itself: sign, 53-bit mantissa and exponent, every operation     *)
(* rounded to nearest, ties to even.                                       *)
(***************************************************************************)
EXTENDS Integers, Sequences, FiniteSets, TLC

\* ------------------------------------------------------------------ bounds
\* Symptom columns of the dataset.
MaxSymptoms == 2
\* Records of the dataset a session runs on.
MaxRecords == 2
\* Records of the dataset infer_condition and select_next_question are
\* called on directly.
MaxCallRecords == 3
\* Records of the dataset infer_condition({}) is evaluated on in float64.
MaxFloatRecords == 6
\* Records of the datasets of the sessions of SpecWide.
MaxWideRecords == 4

\* Column names of the symptom columns, in column order, and the labels that
\* may appear in the last column.
SymptomNames == <<"A", "B", "C">>
LabelNames == <<"X", "Y">>
\* The labels of the datasets of SpecFloat.
FloatLabelNames == <<"X", "Y", "Z">>
\* Values the Yes / No buttons and the Left / Right keys pass.
AnswerValues == {0, 1}

\* --------------------------------------------------------------- rationals
Abs(x) == IF x < 0 THEN -x ELSE x

RECURSIVE GCD(_, _)
GCD(a, b) == IF b = 0 THEN a ELSE GCD(b, a % b)

NaN == <<0, 0>>
IsNaN(r) == r[2] = 0

\* n / d in lowest terms with a positive denominator; x / 0 is NaN.
Rat(n, d) ==
    IF d = 0 THEN NaN
    ELSE LET g == GCD(Abs(n), Abs(d))
             s == IF d < 0 THEN -1 ELSE 1
         IN  <<(s * n) \div g, (s * d) \div g>>

Zero == <<0, 1>>
One == <<1, 1>>

\* With a large denominator the operations cancel common factors before
\* they multiply, so that the intermediate products stay within TLC's
\* integers.
RAddReduced(p, q, g) ==
    Rat(p[1] * (q[2] \div g) + q[1] * (p[2] \div g), (p[2] \div g) * q[2])
RAdd(p, q) == IF IsNaN(p) \/ IsNaN(q) THEN NaN
              ELSE IF p[2] + q[2] < 32768 THEN Rat(p[1] * q[2] + q[1] * p[2], p[2] * q[2])
              ELSE RAddReduced(p, q, GCD(p[2], q[2]))
RSub(p, q) == IF IsNaN(p) \/ IsNaN(q) THEN NaN
              ELSE IF p[2] + q[2] < 32768 THEN Rat(p[1] * q[2] - q[1] * p[2], p[2] * q[2])
              ELSE RAddReduced(p, <<-q[1], q[2]>>, GCD(p[2], q[2]))
RMulReduced(p, q, g, h) ==
    Rat((p[1] \div g) * (q[1] \div h), (p[2] \div h) * (q[2] \div g))
RMul(p, q) == IF IsNaN(p) \/ IsNaN(q) THEN NaN
              ELSE IF p[2] + q[2] < 32768 THEN Rat(p[1] * q[1], p[2] * q[2])
              ELSE RMulReduced(p, q, GCD(Abs(p[1]), q[2]), GCD(Abs(q[1]), p[2]))
RDiv(p, q) == IF IsNaN(p) \/ IsNaN(q) THEN NaN
              ELSE IF p[2] + q[2] < 32768 THEN Rat(p[1] * q[2], p[2] * q[1])
              ELSE RMul(p, Rat(q[2], q[1]))
\* p > q as the float comparison: false whenever an operand is NaN.
RGreater(p, q) == ~IsNaN(p) /\ ~IsNaN(q) /\ p[1] * q[2] > q[1] * p[2]

RECURSIVE RSum(_)
RSum(seq) == IF seq = <<>> THEN Zero ELSE RAdd(RSum(SubSeq(seq, 1, Len(seq) - 1)), seq[Len(seq)])

\* ------------------------------------------------------------ the dataset
\* A record of the CSV file: <<symptom values in column order, label>>.
RecordLabel(rec) == rec[2]
RecordValues(rec) == rec[1]

\* The program reads the records only through the order in which the labels
\* first appear, the number of records of each label and the per-label sums
\* of each column, and it only compares labels for equality.  The datasets
\* are therefore drawn up to renaming of the labels and up to reorderings
\* that keep the order of first appearance: the records of a label are
\* adjacent, X comes before Y, and the records of a label are in
\* lexicographic order of their values.
SeqToSet(seq) == {seq[i] : i \in 1..Len(seq)}

LabelRank(lab, names) == CHOOSE i \in 1..Len(names) : names[i] = lab

RECURSIVE ValuesRank(_)
ValuesRank(vals) ==
    IF Len(vals) = 0 THEN 0
    ELSE 2 * ValuesRank(SubSeq(vals, 1, Len(vals) - 1)) + vals[Len(vals)]

RecordRank(rec, ns, names) ==
    LabelRank(RecordLabel(rec), names) * (2 ^ ns) + ValuesRank(RecordValues(rec))

Datasets(ns, nr, names) ==
    {d \in [1..nr -> ([1..ns -> {0, 1}] \X SeqToSet(names))] :
        /\ \A i \in 1..(nr - 1) : RecordRank(d[i], ns, names) <= RecordRank(d[i + 1], ns, names)
        /\ nr > 0 => RecordLabel(d[1]) = names[1]}

VARIABLES
    data,               \* self.data: the records, in file order
    symptoms,           \* self.symptoms: list of symptom column names
    conditions,         \* self.conditions: labels in order of first appearance
    prior_probs,        \* self.prior_probs: condition -> probability
    conditional_probs,  \* self.conditional_probs: condition -> symptom -> probability
    observed_symptoms,  \* self.observed_symptoms: dict, as <<symptom, value>> pairs in insertion order
    asked_symptoms,     \* self.asked_symptoms: set
    gui,                \* the widgets: yes_button, no_button, end_button (their state),
                        \* question_label (symptom asked, or "Final Diagnosis"), results (results frame)
    last,               \* the handler that ran last and how it returned
    call,               \* the last direct call of infer_condition / select_next_question:
                        \* its argument and the value it returned
    peer,               \* a second DiagnosticAgentGUI object built from the same file:
                        \* its observed_symptoms, asked_symptoms and gui
    styled              \* an object of the styled DiagnosticAgentGUI class (ttk widgets)
                        \* built from the same file, or None: its observed_symptoms,
                        \* asked_symptoms, gui, and what reading a button's state returns

vars == <<data, symptoms, conditions, prior_probs, conditional_probs,
          observed_symptoms, asked_symptoms, gui, last, call, peer, styled>>

model == <<data, symptoms, conditions, prior_probs, conditional_probs>>
session == <<observed_symptoms, asked_symptoms, gui, last>>

NORMAL == "normal"
DISABLED == "disabled"

\* ------------------------------------------------------- probability model
\* list(data[label column].unique()): labels in order of first appearance.
RECURSIVE Unique(_)
Unique(d) ==
    IF Len(d) = 0 THEN <<>>
    ELSE LET front == Unique(SubSeq(d, 1, Len(d) - 1))
             lab == RecordLabel(d[Len(d)])
         IN  IF lab \in SeqToSet(front) THEN front ELSE Append(front, lab)

ColumnIndex(syms, s) == CHOOSE i \in 1..Len(syms) : syms[i] = s

CountLabel(d, c) == Cardinality({i \in 1..Len(d) : RecordLabel(d[i]) = c})

\* Mutant of calculate_prior_probs: the counts are not normalized.
calculate_prior_probs_Counts(d) ==
    [c \in SeqToSet(Unique(d)) |-> Rat(CountLabel(d, c), 1)]

\* value_counts(normalize=True).to_dict()
calculate_prior_probs(d) ==
    [c \in SeqToSet(Unique(d)) |-> Rat(CountLabel(d, c), Len(d))]

SumColumn(d, c, col) ==
    Cardinality({i \in 1..Len(d) : RecordLabel(d[i]) = c /\ RecordValues(d[i])[col] = 1})

\* Mutant of calculate_conditional_probs: the sums of a condition are divided
\* by the number of all records.
calculate_conditional_probs_OverAll(d, syms, conds) ==
    [c \in SeqToSet(conds) |->
        [s \in SeqToSet(syms) |-> Rat(SumColumn(d, c, ColumnIndex(syms, s)), Len(d))]]

\* condition_data[symptoms].sum(axis=0) / len(condition_data), per condition
calculate_conditional_probs(d, syms, conds) ==
    [c \in SeqToSet(conds) |->
        [s \in SeqToSet(syms) |-> Rat(SumColumn(d, c, ColumnIndex(syms, s)), CountLabel(d, c))]]

\* ---------------------------------------------------------- Python helpers
None == "None"

\* [F(x) for x in seq], built element by element.
RECURSIVE MapSeq(_, _)
MapSeq(F(_), seq) ==
    IF seq = <<>> THEN <<>> ELSE <<F(Head(seq))>> \o MapSeq(F, Tail(seq))

\* Mutant of DictGet: a missing key yields 0 instead of the default.
DictGet_ZeroDefault(d, key, default) == IF key \in DOMAIN d THEN d[key] ELSE Zero

\* dict.get(key, default)
DictGet(d, key, default) == IF key \in DOMAIN d THEN d[key] ELSE default

\* A dict with insertion order is a sequence of <<key, value>> pairs.
Keys(items) == {items[i][1] : i \in 1..Len(items)}
Values(items) == LET V(item) == item[2] IN MapSeq(V, items)
Lookup(items, key) == items[CHOOSE i \in 1..Len(items) : items[i][1] = key][2]

\* Mutant of DictSet: a new key is not inserted.
DictSet_NoInsert(items, key, value) ==
    IF key \in Keys(items)
    THEN LET Put(item) == IF item[1] = key THEN <<key, value>> ELSE item IN MapSeq(Put, items)
    ELSE items

\* d[key] = value: overwrite in place, or insert at the end.
DictSet(items, key, value) ==
    IF key \in Keys(items)
    THEN LET Put(item) == IF item[1] = key THEN <<key, value>> ELSE item IN MapSeq(Put, items)
    ELSE Append(items, <<key, value>>)

\* Mutant of MaxScan: a later item replaces the running maximum on a tie.
RECURSIVE MaxScan_LastOnTie(_, _, _)
MaxScan_LastOnTie(items, i, best) ==
    IF i > Len(items) THEN best
    ELSE MaxScan_LastOnTie(items, i + 1, IF RGreater(items[best][2], items[i][2]) THEN best ELSE i)

\* max(items, key=...): the first item whose key no later item exceeds;
\* an item replaces the running maximum only when its key is strictly greater.
RECURSIVE MaxScan(_, _, _)
MaxScan(items, i, best) ==
    IF i > Len(items) THEN best
    ELSE MaxScan(items, i + 1, IF RGreater(items[i][2], items[best][2]) THEN i ELSE best)

\* Mutant of MaxByValue: the key of the last item.
MaxByValue_Last(items) == items[Len(items)][1]

MaxByValue(items) == items[MaxScan(items, 2, 1)][1]

\* Mutant of InsertDesc: an item goes in front of the items of equal value.
RECURSIVE InsertDesc_BeforeEqual(_, _)
InsertDesc_BeforeEqual(sorted, x) ==
    IF sorted = <<>> THEN <<x>>
    ELSE IF ~RGreater(sorted[1][2], x[2]) THEN <<x>> \o sorted
         ELSE <<sorted[1]>> \o InsertDesc_BeforeEqual(Tail(sorted), x)

\* sorted(items, key=lambda x: x[1], reverse=True): stable, descending.
RECURSIVE InsertDesc(_, _)
InsertDesc(sorted, x) ==
    IF sorted = <<>> THEN <<x>>
    ELSE IF RGreater(x[2], sorted[1][2]) THEN <<x>> \o sorted
         ELSE <<sorted[1]>> \o InsertDesc(Tail(sorted), x)

RECURSIVE SortedDesc(_)
SortedDesc(items) ==
    IF items = <<>> THEN <<>>
    ELSE InsertDesc(SortedDesc(SubSeq(items, 1, Len(items) - 1)), items[Len(items)])

\* numpy.var(xs): mean of the squared deviations from the mean; NaN for [].
Mean(xs) == RDiv(RSum(xs), <<Len(xs), 1>>)
Var(xs) ==
    LET m == Mean(xs)
        SqDev(x) == RMul(RSub(x, m), RSub(x, m))
    IN  Mean(MapSeq(SqDev, xs))

\* ------------------------------------------------------- posterior engine
\* The 1e-6 default of conditional_probs[condition].get(symptom, 1e-6).
Floor == Rat(1, 1000000)

\* Mutant of Score: an answer of 0 multiplies by the conditional probability
\* itself instead of its complement.
RECURSIVE Score_NoComplement(_, _)
Score_NoComplement(condition, observed) ==
    IF observed = <<>> THEN prior_probs[condition]
    ELSE LET prob == Score_NoComplement(condition, SubSeq(observed, 1, Len(observed) - 1))
             symptom == observed[Len(observed)][1]
             value == observed[Len(observed)][2]
             p == DictGet(conditional_probs[condition], symptom, Floor)
         IN  IF value = 1 THEN RMul(prob, p)
             ELSE IF value = 0 THEN RMul(prob, p)
             ELSE prob

\* Mutant of Score: each item overwrites prob with the prior times its factor
\* instead of multiplying prob.
Score_LastItem(condition, observed) ==
    IF observed = <<>> THEN prior_probs[condition]
    ELSE LET symptom == observed[Len(observed)][1]
             value == observed[Len(observed)][2]
             p == DictGet(conditional_probs[condition], symptom, Floor)
         IN  IF value = 1 THEN RMul(prior_probs[condition], p)
             ELSE IF value = 0 THEN RMul(prior_probs[condition], RSub(One, p))
             ELSE prior_probs[condition]

\* The inner loop of infer_condition over observed_symptoms.items().
RECURSIVE Score(_, _)
Score(condition, observed) ==
    IF observed = <<>> THEN prior_probs[condition]
    ELSE LET prob == Score(condition, SubSeq(observed, 1, Len(observed) - 1))
             symptom == observed[Len(observed)][1]
             value == observed[Len(observed)][2]
             p == DictGet(conditional_probs[condition], symptom, Floor)
         IN  IF value = 1 THEN RMul(prob, p)
             ELSE IF value = 0 THEN RMul(prob, RSub(One, p))
             ELSE prob

\* Mutant of infer_condition: the total is not tested for zero before the
\* division.
infer_condition_NoFallback(observed) ==
    LET Raw(condition) == <<condition, Score(condition, observed)>>
        probabilities == MapSeq(Raw, conditions)
        total_prob == RSum(Values(probabilities))
        Normalized(item) == <<item[1], RDiv(item[2], total_prob)>>
    IN  MapSeq(Normalized, probabilities)

infer_condition(observed) ==
    LET Raw(condition) == <<condition, Score(condition, observed)>>
        probabilities == MapSeq(Raw, conditions)
        total_prob == RSum(Values(probabilities))
        Even(condition) == <<condition, Rat(1, Len(conditions))>>
        Normalized(item) == <<item[1], RDiv(item[2], total_prob)>>
    IN  IF total_prob = Zero
        THEN MapSeq(Even, conditions)
        ELSE MapSeq(Normalized, probabilities)

\* ------------------------------------------------------ question selector
SymptomVariance(symptom) ==
    LET P(cond) == DictGet(conditional_probs[cond], symptom, Zero)
    IN  Var(MapSeq(P, conditions))

\* Mutants of RemainingSymptoms: the asked symptoms are not filtered out;
\* the filter is inverted.
RemainingSymptoms_Unfiltered(asked) == symptoms
RemainingSymptoms_Inverted(asked) == SelectSeq(symptoms, LAMBDA s : s \in asked)

\* [symptom for symptom in self.symptoms if symptom not in asked_symptoms]
RemainingSymptoms(asked) == SelectSeq(symptoms, LAMBDA s : s \notin asked)

\* Mutants of select_next_question: the last remaining symptom is returned;
\* the first remaining symptom is returned.
select_next_question_LastRemaining(asked) ==
    IF RemainingSymptoms(asked) = <<>> THEN None
    ELSE RemainingSymptoms(asked)[Len(RemainingSymptoms(asked))]
select_next_question_FirstRemaining(asked) ==
    IF RemainingSymptoms(asked) = <<>> THEN None
    ELSE RemainingSymptoms(asked)[1]

select_next_question(asked) ==
    LET remaining_symptoms == RemainingSymptoms(asked)
        Item(symptom) == <<symptom, SymptomVariance(symptom)>>
        symptom_variance == MapSeq(Item, remaining_symptoms)
    IN  IF remaining_symptoms = <<>> THEN None
        ELSE MaxByValue(symptom_variance)

\* ----------------------------------------------------- session controller
\* Mutant of show_final_diagnosis: the final probabilities are computed from
\* no observations.
show_final_diagnosis_NoObservations(g, observed) ==
    [yes_button |-> DISABLED, no_button |-> DISABLED, end_button |-> DISABLED,
     question_label |-> "Final Diagnosis",
     results |-> [kind |-> "final", rows |-> SortedDesc(infer_condition(<<>>))]]

\* Mutant of show_final_diagnosis: the children of the results frame are not
\* destroyed before the new rows are added.
show_final_diagnosis_KeepsOldRows(g, observed) ==
    [yes_button |-> DISABLED, no_button |-> DISABLED, end_button |-> DISABLED,
     question_label |-> "Final Diagnosis",
     results |-> [kind |-> "final", rows |-> g.results.rows \o SortedDesc(infer_condition(observed))]]

\* show_final_diagnosis: disables the three buttons and fills the results
\* frame with the conditions sorted by probability.
show_final_diagnosis(g, observed) ==
    [yes_button |-> DISABLED, no_button |-> DISABLED, end_button |-> DISABLED,
     question_label |-> "Final Diagnosis",
     results |-> [kind |-> "final", rows |-> SortedDesc(infer_condition(observed))]]

\* Mutant of ask_next_question: the case of no symptom left is not handled.
ask_next_question_NoFinal(g, asked, observed) ==
    [g EXCEPT !.question_label = select_next_question(asked)]

\* ask_next_question: shows the next symptom, or the final diagnosis when
\* none is left.
ask_next_question(g, asked, observed) ==
    LET next_symptom == select_next_question(asked)
    IN  IF next_symptom = None THEN show_final_diagnosis(g, observed)
        ELSE [g EXCEPT !.question_label = next_symptom]

\* The widgets as setup_gui creates them, before it calls ask_next_question.
setup_gui ==
    [yes_button |-> NORMAL, no_button |-> NORMAL, end_button |-> NORMAL,
     question_label |-> "", results |-> [kind |-> "empty", rows |-> <<>>]]

NoCall == [fn |-> "none", arg |-> <<>>, ret |-> <<>>]

\* What self.yes_button['state'] evaluates to.  A classic tk.Button returns
\* the str 'normal' or 'disabled'.  A ttk.Button keeps the option as a Tcl
\* object that its state handling has converted to an index into the table
\* of state names, and tkinter hands an object of a Tcl type it does not
\* convert to the caller as a _tkinter.Tcl_Obj; a build whose widget wrapper
\* converts the value returns the str.
StateReads == {"str", "Tcl_Obj"}

\* The styled object after construction under each of the reads, or no
\* styled object for no read.
StyledObjects(reads) ==
    IF reads = {} THEN {None}
    ELSE {[observed_symptoms |-> <<>>, asked_symptoms |-> {},
           gui |-> ask_next_question(setup_gui, {}, <<>>), state_read |-> read] : read \in reads}

\* DiagnosticAgentGUI(data_path) of both classes: the state after
\* construction, for the datasets of at most maxSymptoms symptom columns and
\* maxRecords records with labels among names.
ConstructWith(maxSymptoms, maxRecords, names, reads) ==
    /\ \E ns \in 0..maxSymptoms, nr \in 0..maxRecords :
          /\ data \in Datasets(ns, nr, names)
          /\ symptoms = SubSeq(SymptomNames, 1, ns)
    /\ conditions = Unique(data)
    /\ prior_probs = calculate_prior_probs(data)
    /\ conditional_probs = calculate_conditional_probs(data, symptoms, conditions)
    /\ observed_symptoms = <<>>
    /\ asked_symptoms = {}
    /\ gui = ask_next_question(setup_gui, asked_symptoms, observed_symptoms)
    /\ last = [op |-> "__init__", outcome |-> "ok"]
    /\ call = NoCall
    /\ peer = [observed_symptoms |-> <<>>, asked_symptoms |-> {},
               gui |-> ask_next_question(setup_gui, {}, <<>>)]
    /\ styled \in StyledObjects(reads)

\* DiagnosticAgentGUI(data_path) of the plain class alone.
Construct(maxSymptoms, maxRecords, names) == ConstructWith(maxSymptoms, maxRecords, names, {})

Init == Construct(MaxSymptoms, MaxRecords, LabelNames)

\* Mutant of ButtonsActive: the state of the buttons is not checked.
ButtonsActive_Unchecked(g) == TRUE
\* Mutant of ButtonsActive: the guard tests whether a symptom is left to ask
\* instead of the state of the buttons.
ButtonsActive_SymptomLeft(g) == \E s \in SeqToSet(symptoms) : s \notin asked_symptoms

\* The guard of record_symptom: neither answer button is disabled.
ButtonsActive(g) == ~(g.yes_button = DISABLED \/ g.no_button = DISABLED)

\* record_symptom(value), bound to the Yes / No buttons and Left / Right keys.
record_symptom(value) ==
    LET current_symptom == select_next_question(asked_symptoms)
        observed == DictSet(observed_symptoms, current_symptom, value)
        asked == asked_symptoms \cup {current_symptom}
        probabilities == infer_condition(observed)
        most_likely_condition == MaxByValue(probabilities)
        shown == [gui EXCEPT !.results =
                     [kind |-> "current",
                      rows |-> <<<<most_likely_condition, Lookup(probabilities, most_likely_condition)>>>>]]
    IN  IF ~ButtonsActive(gui)
        THEN /\ last' = [op |-> "record_symptom", outcome |-> "return"]
             /\ UNCHANGED <<model, peer, observed_symptoms, asked_symptoms, gui, call>>
        ELSE IF current_symptom = None
        THEN /\ last' = [op |-> "record_symptom", outcome |-> "return"]
             /\ UNCHANGED <<model, peer, observed_symptoms, asked_symptoms, gui, call>>
        ELSE /\ observed_symptoms' = observed
             /\ asked_symptoms' = asked
             /\ IF probabilities = <<>>
                \* max() of an empty dict raises ValueError; the handler ends here
                THEN /\ last' = [op |-> "record_symptom", outcome |-> "ValueError"]
                     /\ UNCHANGED gui
                ELSE /\ gui' = ask_next_question(shown, asked, observed)
                     /\ last' = [op |-> "record_symptom", outcome |-> "ok"]
             /\ UNCHANGED <<model, peer, call>>

\* show_final_diagnosis(), bound to the End button and the End key.
EndPressed ==
    /\ gui' = show_final_diagnosis(gui, observed_symptoms)
    /\ last' = [op |-> "show_final_diagnosis", outcome |-> "ok"]
    /\ UNCHANGED <<model, peer, observed_symptoms, asked_symptoms, call>>

\* The events of the plain object; they do not reach the styled one.
Finish == EndPressed /\ UNCHANGED styled

Answer == (\E value \in AnswerValues : record_symptom(value)) /\ UNCHANGED styled

Next == Answer \/ Finish

Spec == Init /\ [][Next]_vars

\* ------------------------------------------------ record_symptom as a method
\* record_symptom is a public method: a caller other than the two buttons
\* and the two keys may pass any value.  2 stands for the values that are
\* neither == 1 nor == 0.
OtherValues == {1 + 1}

AnswerOther == (\E value \in OtherValues : record_symptom(value)) /\ UNCHANGED styled

NextApi == Answer \/ AnswerOther \/ Finish

SpecApi == Init /\ [][NextApi]_vars

\* -------------------------------------------- sessions on larger datasets
\* The sessions on the datasets of at most two symptom columns A and B, up
\* to MaxWideRecords records and up to three conditions.
WideSymptoms == <<"A", "B">>

InitWide == Construct(Len(WideSymptoms), MaxWideRecords, FloatLabelNames)

SpecWide == InitWide /\ [][Next]_vars

\* The sessions on the datasets of up to three symptom columns.
InitOrder == Construct(Len(SymptomNames), MaxRecords, LabelNames)

SpecOrder == InitOrder /\ [][Next]_vars

\* ------------------------------------------- the two functions on their own
\* Asked sets handed to select_next_question: any set of symptom names,
\* also names that are no column of the dataset.
AskedSets == SUBSET (SeqToSet(symptoms) \cup {"Q"})

\* Observation dicts handed to infer_condition: any symptoms of the dataset,
\* each at most once, in any insertion order, with any answers.
ObservationSets ==
    {obs \in UNION {[1..k -> SeqToSet(symptoms) \X AnswerValues] : k \in 0..Len(symptoms)} :
        \A i, j \in 1..Len(obs) : obs[i][1] = obs[j][1] => i = j}

\* Each behaviour of SpecFn is one call on the freshly built object.
\* Mutant of CallSelect: the symptom selected is removed from self.symptoms.
CallSelect_RemovesSymptom ==
    /\ call = NoCall
    /\ \E asked \in AskedSets :
          /\ call' = [fn |-> "select_next_question", arg |-> asked, ret |-> select_next_question(asked)]
          /\ symptoms' = SelectSeq(symptoms, LAMBDA s : s # select_next_question(asked))
    /\ UNCHANGED <<data, conditions, prior_probs, conditional_probs, session, peer, styled>>

CallSelect ==
    /\ call = NoCall
    /\ \E asked \in AskedSets :
          call' = [fn |-> "select_next_question", arg |-> asked, ret |-> select_next_question(asked)]
    /\ UNCHANGED <<model, peer, styled, session>>

CallInfer ==
    /\ call = NoCall
    /\ \E observed \in ObservationSets :
          call' = [fn |-> "infer_condition", arg |-> observed, ret |-> infer_condition(observed)]
    /\ UNCHANGED <<model, peer, styled, session>>

InitFn == Construct(MaxSymptoms, MaxCallRecords, LabelNames)

NextFn == CallSelect \/ CallInfer

SpecFn == InitFn /\ [][NextFn]_vars

\* ------------------------------------- sessions with calls from outside
\* A session in which, besides the buttons and keys, select_next_question
\* or infer_condition is called once on the object with any argument, at
\* any point of the session.
InitFrame == Construct(Len(WideSymptoms), MaxRecords, LabelNames)

NextFrame == Answer \/ Finish \/ CallSelect \/ CallInfer

SpecFrame == InitFrame /\ [][NextFrame]_vars

\* ------------------------------------------------------------ two sessions
\* The handlers of the second object.  Tk runs one handler at a time, to its
\* end, so the handlers of the two objects interleave as whole steps.

\* Mutant of PeerRecordSymptom: observed_symptoms is one dict shared by the
\* two objects, as a class attribute would be.
PeerRecordSymptom_SharedObserved(value) ==
    LET current_symptom == select_next_question(peer.asked_symptoms)
        observed == DictSet(observed_symptoms, current_symptom, value)
        asked == peer.asked_symptoms \cup {current_symptom}
        probabilities == infer_condition(observed)
        most_likely_condition == MaxByValue(probabilities)
        shown == [peer.gui EXCEPT !.results =
                     [kind |-> "current",
                      rows |-> <<<<most_likely_condition, Lookup(probabilities, most_likely_condition)>>>>]]
    IN  /\ IF ~ButtonsActive(peer.gui) \/ current_symptom = None
           THEN UNCHANGED <<peer, observed_symptoms>>
           ELSE /\ observed_symptoms' = observed
                /\ peer' = [observed_symptoms |-> observed,
                            asked_symptoms |-> asked,
                            gui |-> IF probabilities = <<>> THEN peer.gui
                                    ELSE ask_next_question(shown, asked, observed)]
        /\ UNCHANGED <<model, asked_symptoms, gui, last, call, styled>>

\* record_symptom(value) of the second object.
PeerRecordSymptom(value) ==
    LET current_symptom == select_next_question(peer.asked_symptoms)
        observed == DictSet(peer.observed_symptoms, current_symptom, value)
        asked == peer.asked_symptoms \cup {current_symptom}
        probabilities == infer_condition(observed)
        most_likely_condition == MaxByValue(probabilities)
        shown == [peer.gui EXCEPT !.results =
                     [kind |-> "current",
                      rows |-> <<<<most_likely_condition, Lookup(probabilities, most_likely_condition)>>>>]]
    IN  /\ IF ~ButtonsActive(peer.gui) \/ current_symptom = None
           THEN UNCHANGED peer
           \* max() of an empty dict raises ValueError after the answer is recorded
           ELSE peer' = [observed_symptoms |-> observed,
                         asked_symptoms |-> asked,
                         gui |-> IF probabilities = <<>> THEN peer.gui
                                 ELSE ask_next_question(shown, asked, observed)]
        /\ UNCHANGED <<model, session, call, styled>>

PeerAnswer == \E value \in AnswerValues : PeerRecordSymptom(value)

\* show_final_diagnosis() of the second object.
PeerFinish ==
    /\ peer' = [peer EXCEPT !.gui = show_final_diagnosis(peer.gui, peer.observed_symptoms)]
    /\ UNCHANGED <<model, session, call, styled>>

NextTwo == Answer \/ Finish \/ PeerAnswer \/ PeerFinish

SpecTwo == InitFrame /\ [][NextTwo]_vars

\* ------------------------------------------------------ the styled variant
\* The second DiagnosticAgentGUI class has the same methods as the first,
\* statement by statement, on ttk widgets in a ttkbootstrap window.
\* button['state'] as the build of obj returns it: the str, or the Tcl object
\* by its repr.
StateRead(state, read) ==
    IF read = "str" THEN state
    ELSE IF state = DISABLED THEN "<index object: 'disabled'>"
    ELSE "<index object: 'normal'>"

\* The guard of the styled record_symptom: the == of a str is its value, the
\* == of a Tcl_Obj with the str tk.DISABLED is False.
StyledButtonsActive(obj) ==
    ~(\/ StateRead(obj.gui.yes_button, obj.state_read) = DISABLED
      \/ StateRead(obj.gui.no_button, obj.state_read) = DISABLED)

\* What the styled record_symptom leaves of obj once it is past its guards.
StyledRecorded(obj, observed, asked, probabilities) ==
    [obj EXCEPT
        !.observed_symptoms = observed,
        !.asked_symptoms = asked,
        \* max() of an empty dict raises ValueError after the answer is recorded
        !.gui = IF probabilities = <<>> THEN obj.gui
                ELSE ask_next_question(
                         [obj.gui EXCEPT !.results =
                             [kind |-> "current",
                              rows |-> <<<<MaxByValue(probabilities),
                                          Lookup(probabilities, MaxByValue(probabilities))>>>>]],
                         asked, observed)]

\* record_symptom(value) of the styled object: the object it leaves.
StyledRecordSymptom(obj, value) ==
    LET current_symptom == select_next_question(obj.asked_symptoms)
        observed == DictSet(obj.observed_symptoms, current_symptom, value)
    IN  IF ~StyledButtonsActive(obj) \/ current_symptom = None THEN obj
        ELSE StyledRecorded(obj, observed, obj.asked_symptoms \cup {current_symptom},
                            infer_condition(observed))

\* show_final_diagnosis() of the styled object: the object it leaves.
StyledShowFinalDiagnosis(obj) ==
    [obj EXCEPT !.gui = show_final_diagnosis(obj.gui, obj.observed_symptoms)]

\* One sequence of events is given to an object of each class: a Yes or No
\* (button or Left / Right key) and an End (button or End key) reach the
\* handlers of both.
EventAnswer ==
    \E value \in AnswerValues :
        /\ record_symptom(value)
        /\ styled' = StyledRecordSymptom(styled, value)

EventFinish ==
    /\ EndPressed
    /\ styled' = StyledShowFinalDiagnosis(styled)

InitStyled == ConstructWith(Len(WideSymptoms), MaxRecords, LabelNames, StateReads)

NextStyled == EventAnswer \/ EventFinish

SpecStyled == InitStyled /\ [][NextStyled]_vars

\* ------------------------------- infer_condition on an unknown symptom
\* Observation dicts with the key Q, which is no column of the dataset, and
\* any symptoms of the dataset, in any insertion order, with any answers.
UnknownObservationSets ==
    {obs \in UNION {[1..k -> (SeqToSet(symptoms) \cup {"Q"}) \X AnswerValues] :
                        k \in 1..(Len(symptoms) + 1)} :
        /\ \A i, j \in 1..Len(obs) : obs[i][1] = obs[j][1] => i = j
        /\ \E i \in 1..Len(obs) : obs[i][1] = "Q"}

CallInferUnknown ==
    /\ call = NoCall
    /\ \E observed \in UnknownObservationSets :
          call' = [fn |-> "infer_condition", arg |-> observed, ret |-> infer_condition(observed)]
    /\ UNCHANGED <<model, peer, styled, session>>

InitUnknown == Construct(Len(WideSymptoms), MaxRecords, LabelNames)

SpecUnknown == InitUnknown /\ [][CallInferUnknown]_vars

\* ------------------------------------------------------ float64 arithmetic
\* A natural number below 2^58 as two limbs <<hi, lo>> = hi * 2^27 + lo.
LimbBits == 27
Limb == 2 ^ LimbBits
N2Zero == <<0, 0>>
N2Add(x, y) == LET lo == x[2] + y[2] IN <<x[1] + y[1] + (lo \div Limb), lo % Limb>>
N2Sub(x, y) ==
    LET lo == x[2] - y[2]
    IN  IF lo >= 0 THEN <<x[1] - y[1], lo>> ELSE <<x[1] - y[1] - 1, lo + Limb>>
N2Less(x, y) == x[1] < y[1] \/ (x[1] = y[1] /\ x[2] < y[2])
N2Odd(x) == x[2] % 2 = 1
N2Inc(x) == N2Add(x, <<0, 1>>)
\* x * k for a small factor k <= 8.
N2Scale(x, k) == LET lo == x[2] * k IN <<x[1] * k + (lo \div Limb), lo % Limb>>
\* 2^b.
N2Pow(b) == IF b < LimbBits THEN <<0, 2 ^ b>> ELSE <<2 ^ (b - LimbBits), 0>>
\* The number of bits of n > 0, which is known to be in lo..hi.
RECURSIVE BitsIn(_, _, _)
BitsIn(n, lo, hi) ==
    IF lo = hi THEN lo
    ELSE IF n < 2 ^ ((lo + hi) \div 2) THEN BitsIn(n, lo, (lo + hi) \div 2)
    ELSE BitsIn(n, (lo + hi) \div 2 + 1, hi)
\* The number of bits of x > 0.
N2Bits(x) == IF x[1] > 0 THEN LimbBits + BitsIn(x[1], 1, LimbBits + 4) ELSE BitsIn(x[2], 1, LimbBits)
\* x * 2^k, the result below 2^58.
N2ShiftLeft(x, k) ==
    IF k < LimbBits
    THEN <<x[1] * (2 ^ k) + (x[2] \div (2 ^ (LimbBits - k))), (x[2] % (2 ^ (LimbBits - k))) * (2 ^ k)>>
    ELSE <<x[2] * (2 ^ (k - LimbBits)), 0>>
\* x \div 2^k.
N2ShiftRight(x, k) ==
    IF k < LimbBits
    THEN <<x[1] \div (2 ^ k), (x[2] \div (2 ^ k)) + (x[1] % (2 ^ k)) * (2 ^ (LimbBits - k))>>
    ELSE IF k < 2 * LimbBits THEN <<0, x[1] \div (2 ^ (k - LimbBits))>>
    ELSE N2Zero
\* x \div 2^k with the lowest bit set when a one was shifted out (sticky bit).
N2ShiftRightSticky(x, k) ==
    LET kept == N2ShiftRight(x, k)
        exact == k < 2 * LimbBits /\ N2ShiftLeft(kept, k) = x
    IN  IF exact \/ N2Odd(kept) THEN kept ELSE N2Inc(kept)

MantissaBits == 53
ExtraBits == 3

\* A float64 that is zero or a normal number: s * m * 2^e with s the sign and
\* 2^52 <= m < 2^53, or m = 0.
F64Zero == [s |-> 1, m |-> N2Zero, e |-> 0]
F64One == [s |-> 1, m |-> N2Pow(MantissaBits - 1), e |-> 1 - MantissaBits]

\* The mantissa q rounded up or not, renormalised when it reaches 2^53.
F64Round(s, q, up, e) ==
    IF ~up THEN [s |-> s, m |-> q, e |-> e]
    ELSE IF N2Inc(q) = N2Pow(MantissaBits) THEN [s |-> s, m |-> N2Pow(MantissaBits - 1), e |-> e + 1]
    ELSE [s |-> s, m |-> N2Inc(q), e |-> e]

\* The quotient of a / d to 55 bits by long division, three bits (one octal
\* digit) at a time: q is the quotient so far, r < d the remainder so far.
\* <<quotient, remainder>>.
RECURSIVE LongDiv(_, _, _)
\* The next digit: the largest k in 0..7 with k * d <= r8.
LongDivDigit(r8, d) ==
    IF N2Less(r8, N2Scale(d, 4))
    THEN IF N2Less(r8, N2Scale(d, 2))
         THEN (IF N2Less(r8, d) THEN 0 ELSE 1)
         ELSE (IF N2Less(r8, N2Scale(d, 3)) THEN 2 ELSE 3)
    ELSE IF N2Less(r8, N2Scale(d, 6))
         THEN (IF N2Less(r8, N2Scale(d, 5)) THEN 4 ELSE 5)
         ELSE (IF N2Less(r8, N2Scale(d, 7)) THEN 6 ELSE 7)
LongDivStep(r8, d, q, digit) ==
    LongDiv(N2Sub(r8, N2Scale(d, digit)), d, N2Add(N2Scale(q, 8), <<0, digit>>))
LongDiv(r, d, q) ==
    IF ~N2Less(q, N2Pow(MantissaBits + 1)) THEN <<q, r>>
    ELSE LongDivStep(N2Scale(r, 8), d, q, LongDivDigit(N2Scale(r, 8), d))

\* The quotient qr[1] of 55 bits, two more than the mantissa holds, with
\* remainder qr[2], rounded to nearest, ties to even.
F64RoundQuotient(s, qr, e) ==
    F64Round(s, N2ShiftRight(qr[1], 2),
             \/ qr[1][2] % 4 = 3
             \/ qr[1][2] % 4 = 2 /\ (qr[2] # N2Zero \/ N2Odd(N2ShiftRight(qr[1], 2))),
             e)

\* s * (a / b) * 2^e rounded for b <= a < 2b.
F64Quotient(s, a, b, e) ==
    F64RoundQuotient(s, LongDiv(N2Sub(a, b), b, <<0, 1>>), e + 1 - MantissaBits)

\* a / b for integers a >= 0 and b > 0: the true division of two integers.
RECURSIVE F64Ratio(_, _, _)
F64Ratio(a, b, e) ==
    IF a < b THEN F64Ratio(2 * a, b, e - 1)
    ELSE IF a >= 2 * b THEN F64Ratio(a, 2 * b, e + 1)
    ELSE F64Quotient(1, <<0, a>>, <<0, b>>, e)

F64FromRatio(a, b) == IF a = 0 THEN F64Zero ELSE F64Ratio(a, b, 0)

\* x / y for y # 0.
F64Div(x, y) ==
    IF x.m = N2Zero THEN F64Zero
    ELSE IF N2Less(x.m, y.m) THEN F64Quotient(x.s * y.s, N2Scale(x.m, 2), y.m, x.e - y.e - 1)
    ELSE F64Quotient(x.s * y.s, x.m, y.m, x.e - y.e)

\* |x| >= |y|.
F64MagnitudeGeq(x, y) ==
    \/ y.m = N2Zero
    \/ x.m # N2Zero /\ (x.e > y.e \/ (x.e = y.e /\ ~N2Less(x.m, y.m)))

Min(a, b) == IF a < b THEN a ELSE b

\* t, a mantissa with ExtraBits more bits, rounded to nearest, ties to even.
F64RoundExtra(s, t, e) ==
    F64Round(s, N2ShiftRight(t, ExtraBits),
             \/ t[2] % (2 ^ ExtraBits) > 2 ^ (ExtraBits - 1)
             \/ t[2] % (2 ^ ExtraBits) = 2 ^ (ExtraBits - 1) /\ N2Odd(N2ShiftRight(t, ExtraBits)),
             e)

\* raw > 0 brought to MantissaBits + ExtraBits bits by a shift; bits shifted
\* out are kept in the sticky bit.
F64Shifted(s, raw, shift, e) ==
    F64RoundExtra(s, IF shift > 0 THEN N2ShiftRightSticky(raw, shift) ELSE N2ShiftLeft(raw, 0 - shift),
                  e + shift)

F64Normalised(s, raw, e) ==
    IF raw = N2Zero THEN F64Zero
    ELSE F64Shifted(s, raw, N2Bits(raw) - (MantissaBits + ExtraBits), e)

F64Aligned(s, bigX, bigY, subtract, e) ==
    F64Normalised(s, IF subtract THEN N2Sub(bigX, bigY) ELSE N2Add(bigX, bigY), e)

\* x + y for |x| >= |y| > 0, rounded to nearest, ties to even: the mantissas
\* are extended by three bits (guard, round, sticky) and aligned; a sum is
\* renormalised by one bit at most, a difference by as many as it lost.
F64AddOrdered(x, y) ==
    F64Aligned(x.s, N2ShiftLeft(x.m, ExtraBits),
               N2ShiftRightSticky(N2ShiftLeft(y.m, ExtraBits), Min(x.e - y.e, 2 * LimbBits + 4)),
               x.s # y.s, x.e)

F64Add(x, y) ==
    IF x.m = N2Zero THEN y
    ELSE IF y.m = N2Zero THEN x
    ELSE IF F64MagnitudeGeq(x, y) THEN F64AddOrdered(x, y) ELSE F64AddOrdered(y, x)

F64Neg(x) == IF x.m = N2Zero THEN x ELSE [x EXCEPT !.s = 0 - x.s]
F64Sub(x, y) == F64Add(x, F64Neg(y))

\* The product of two mantissas has 105 or 106 bits.  It is computed on digits
\* of DigitBits bits, four per mantissa, least significant first.
DigitBits == 14
Digit == 2 ^ DigitBits
N2Digits(x) ==
    <<x[2] % Digit,
      (x[2] \div Digit) + (x[1] % 2) * (2 ^ (LimbBits - DigitBits)),
      (x[1] \div 2) % Digit,
      x[1] \div (2 * Digit)>>

\* The column sums of the schoolbook product of the digits a and b.
DigitColumns(a, b) ==
    <<a[1] * b[1],
      a[1] * b[2] + a[2] * b[1],
      a[1] * b[3] + a[2] * b[2] + a[3] * b[1],
      a[1] * b[4] + a[2] * b[3] + a[3] * b[2] + a[4] * b[1],
      a[2] * b[4] + a[3] * b[3] + a[4] * b[2],
      a[3] * b[4] + a[4] * b[3],
      a[4] * b[4]>>

\* The digits of the product: the columns with the carries propagated, and
\* the last carry as the highest digit.
RECURSIVE DigitCarry(_, _, _)
DigitCarry(columns, carry, digits) ==
    IF columns = <<>> THEN Append(digits, carry)
    ELSE DigitCarry(Tail(columns), (Head(columns) + carry) \div Digit,
                    Append(digits, (Head(columns) + carry) % Digit))

\* The digits r[5..8] of the product as one number: the product \div 2^56.
DigitsHigh(r) ==
    N2Add(N2ShiftLeft(N2Add(N2ShiftLeft(N2Add(N2ShiftLeft(<<0, r[8]>>, DigitBits), <<0, r[7]>>),
                                        DigitBits), <<0, r[6]>>), DigitBits), <<0, r[5]>>)

\* The product \div 2^(56 - k) on MantissaBits + ExtraBits bits, for the k
\* that leaves that many bits, with the lowest bit set when a one was
\* dropped (sticky bit).
DigitsTop(r, k) ==
    LET kept == N2Add(N2ShiftLeft(DigitsHigh(r), k), <<0, r[4] \div (2 ^ (DigitBits - k))>>)
        exact == r[4] % (2 ^ (DigitBits - k)) = 0 /\ r[3] = 0 /\ r[2] = 0 /\ r[1] = 0
    IN  IF exact \/ N2Odd(kept) THEN kept ELSE N2Inc(kept)

\* The product with the digits r, times 2^e, rounded to nearest, ties to
\* even: 106 bits when bit 7 of the highest digit is set, else 105.
F64RoundProduct(s, r, e) ==
    IF r[8] >= 2 ^ (2 * MantissaBits - 1 - 7 * DigitBits)
    THEN F64RoundExtra(s, DigitsTop(r, 6), e + MantissaBits)
    ELSE F64RoundExtra(s, DigitsTop(r, 7), e + MantissaBits - 1)

\* x * y.
F64Mul(x, y) ==
    IF x.m = N2Zero \/ y.m = N2Zero THEN F64Zero
    ELSE F64RoundProduct(x.s * y.s, DigitCarry(DigitColumns(N2Digits(x.m), N2Digits(y.m)), 0, <<>>),
                         x.e + y.e)

\* sum(values) as a chain of additions from 0, left to right: the builtin
\* before CPython 3.12, and in any version for items that are not exactly of
\* type float (numpy.float64).
RECURSIVE NaiveSum(_)
NaiveSum(values) ==
    IF values = <<>> THEN F64Zero
    ELSE F64Add(NaiveSum(SubSeq(values, 1, Len(values) - 1)), values[Len(values)])

\* sum(values) with the rounding errors of the additions collected in c and
\* added at the end (Neumaier), the builtin on floats since CPython 3.12:
\* one step of the loop, t = f_result + x.
CompensatedStep(f_result, c, x, t) ==
    <<t, F64Add(c, IF F64MagnitudeGeq(f_result, x) THEN F64Add(F64Sub(f_result, t), x)
                   ELSE F64Add(F64Sub(x, t), f_result))>>

CompensatedNext(acc, x) == CompensatedStep(acc[1], acc[2], x, F64Add(acc[1], x))

\* <<f_result, c>> after the last value.
RECURSIVE CompensatedLoop(_)
CompensatedLoop(values) ==
    IF values = <<>> THEN <<F64Zero, F64Zero>>
    ELSE CompensatedNext(CompensatedLoop(SubSeq(values, 1, Len(values) - 1)), values[Len(values)])

CompensatedEnd(acc) == IF acc[2] # F64Zero THEN F64Add(acc[1], acc[2]) ELSE acc[1]

CompensatedSum(values) == CompensatedEnd(CompensatedLoop(values))

\* The two ways the interpreter may sum the values.
SumBuilds == {"naive", "compensated"}
Sum(values, build) == IF build = "naive" THEN NaiveSum(values) ELSE CompensatedSum(values)

\* --------------------------------------------- infer_condition({}) in float64
\* self.prior_probs[condition]: count / number of records as a float64.
PriorFloat(condition) == F64FromRatio(prior_probs[condition][1], prior_probs[condition][2])

\* The probabilities before they are normalized: prob = prior_probs[condition],
\* and the loop over the items of an empty observed_symptoms has no iteration.
PriorScores == LET Raw(condition) == <<condition, PriorFloat(condition)>> IN MapSeq(Raw, conditions)

\* Mutant of TotalFloat: the total leaves out the last condition.
TotalFloat_SkipLast(probabilities, build) ==
    Sum(Values(SubSeq(probabilities, 1, Len(probabilities) - 1)), build)

\* total_prob = sum(probabilities.values())
TotalFloat(probabilities, build) == Sum(Values(probabilities), build)

\* The end of infer_condition: the uniform distribution for a total of 0,
\* else each probability divided by the total.
NormalizeFloat(probabilities, total_prob) ==
    LET Even(condition) == <<condition, F64FromRatio(1, Len(conditions))>>
        Normalized(item) == <<item[1], F64Div(item[2], total_prob)>>
    IN  IF total_prob = F64Zero
        THEN MapSeq(Even, conditions)
        ELSE MapSeq(Normalized, probabilities)

\* infer_condition(observed_symptoms) for observed_symptoms = {}, in float64.
infer_condition_empty(build) == NormalizeFloat(PriorScores, TotalFloat(PriorScores, build))

\* Each behaviour of SpecFloat is one call of infer_condition({}) on the
\* freshly built object, under either way of summing.
CallInferNaive ==
    /\ call = NoCall
    /\ call' = [fn |-> "infer_condition", arg |-> <<>>, ret |-> infer_condition_empty("naive"),
                sum |-> "naive"]
    /\ UNCHANGED <<model, peer, styled, session>>

CallInferCompensated ==
    /\ call = NoCall
    /\ call' = [fn |-> "infer_condition", arg |-> <<>>, ret |-> infer_condition_empty("compensated"),
                sum |-> "compensated"]
    /\ UNCHANGED <<model, peer, styled, session>>

InitFloat == Construct(0, MaxFloatRecords, FloatLabelNames)

NextFloat == CallInferNaive \/ CallInferCompensated

SpecFloat == InitFloat /\ [][NextFloat]_vars

\* ------------------------------------------------ infer_condition in float64
MaxProductRecords == 4

\* self.conditional_probs[condition][symptom]: the mean of a 0/1 column over
\* the records of the condition, as a float64.
ConditionalFloat(condition, symptom) ==
    F64FromRatio(conditional_probs[condition][symptom][1], conditional_probs[condition][symptom][2])

\* What prob is multiplied by for one observed symptom: p for an answer of 1,
\* 1 - p for an answer of 0.
FactorFloat(p, value) ==
    IF value = 1 THEN p
    ELSE IF value = 0 THEN F64Sub(F64One, p)
    ELSE F64One

\* self.conditional_probs as built by __init__, in float64: a dict of dicts.
ConditionalsFloat ==
    LET Row(condition) ==
            LET Item(symptom) == <<symptom, ConditionalFloat(condition, symptom)>>
            IN  <<condition, MapSeq(Item, symptoms)>>
    IN  MapSeq(Row, conditions)

\* Mutant of ScoreFloat: only the item recorded last multiplies prob.
ScoreFloat_LastItem(prob, row, observed) ==
    IF observed = <<>> THEN prob
    ELSE F64Mul(prob, FactorFloat(Lookup(row, observed[Len(observed)][1]), observed[Len(observed)][2]))

\* The inner loop of infer_condition over observed_symptoms.items(), in the
\* order of the dict, which is the order the items were recorded in: prob is
\* the product so far and row is conditional_probs[condition].
RECURSIVE ScoreFloat(_, _, _)
ScoreFloat(prob, row, observed) ==
    IF observed = <<>> THEN prob
    ELSE ScoreFloat(F64Mul(prob, FactorFloat(Lookup(row, Head(observed)[1]), Head(observed)[2])),
                    row, Tail(observed))

\* probabilities: prob for each condition, starting from its prior.
ScoresFloat(priors, conditionals, observed) ==
    LET Raw(item) == <<item[1], ScoreFloat(item[2], Lookup(conditionals, item[1]), observed)>>
    IN  MapSeq(Raw, priors)

NormalizedScores(probabilities, build) == NormalizeFloat(probabilities, TotalFloat(probabilities, build))

\* infer_condition(observed_symptoms) in float64 on the tables priors and
\* conditionals, for symptoms of the dataset.
infer_condition_float(priors, conditionals, observed, build) ==
    NormalizedScores(ScoresFloat(priors, conditionals, observed), build)

\* Each behaviour of SpecProduct is one call of infer_condition on the
\* freshly built object, whose tables __init__ has computed once, under
\* either way of summing, with observations recorded in any order.
CallInferTables(priors, conditionals) ==
    /\ call = NoCall
    /\ \E observed \in ObservationSets, build \in SumBuilds :
          call' = [fn |-> "infer_condition", arg |-> observed,
                   ret |-> infer_condition_float(priors, conditionals, observed, build), sum |-> build]
    /\ UNCHANGED <<model, peer, styled, session>>

CallInferFloat == CallInferTables(PriorScores, ConditionalsFloat)

InitProduct == Construct(Len(WideSymptoms), MaxProductRecords, LabelNames)

SpecProduct == InitProduct /\ [][CallInferFloat]_vars

\* ------------------------------------------------ calculate_diagnosis_score
\* MedicalDiagnosticPrediction: self.illnesses in definition order, each
\* illness with its symptoms and their integer weights in definition order.
illnesses ==
    << <<"Upper Respiratory Tract Infection",
         << <<"cough", 3>>, <<"sore throat", 3>>, <<"runny nose", 2>>, <<"fever", 3>>, <<"fatigue", 2>> >> >>,
       <<"Hypertension",
         << <<"headaches", 2>>, <<"dizziness", 3>>, <<"blurred vision", 2>>, <<"shortness of breath", 3>> >> >>,
       <<"Digestive Issues",
         << <<"nausea", 2>>, <<"abdominal pain", 3>>, <<"excessive thirst", 3>>,
            <<"frequent urination", 3>>, <<"unexplained weight loss", 2>> >> >>,
       <<"Allergies",
         << <<"sneezing", 2>>, <<"itchy eyes", 2>>, <<"rash", 3>>, <<"runny nose", 2>>, <<"swelling", 3>> >> >>,
       <<"Mental Health Conditions",
         << <<"anxiety", 3>>, <<"depression", 3>>, <<"fatigue", 2>>,
            <<"difficulty concentrating", 2>>, <<"insomnia", 3>> >> >> >>

\* Every symptom some illness names.
IllnessSymptoms ==
    UNION {{illnesses[i][2][j][1] : j \in 1..Len(illnesses[i][2])} : i \in 1..Len(illnesses)}

\* The inner loop: score += weight * user_symptoms[symptom] for the symptoms
\* that are keys of user_symptoms, from score = 0; an int.
RECURSIVE WeightedSum(_, _)
WeightedSum(symptomWeights, user_symptoms) ==
    IF symptomWeights = <<>> THEN 0
    ELSE WeightedSum(SubSeq(symptomWeights, 1, Len(symptomWeights) - 1), user_symptoms)
         + (IF symptomWeights[Len(symptomWeights)][1] \in DOMAIN user_symptoms
            THEN symptomWeights[Len(symptomWeights)][2] * user_symptoms[symptomWeights[Len(symptomWeights)][1]]
            ELSE 0)

\* float(n) of an int n >= 0.
F64FromInt(n) == F64Normalised(1, <<0, n>>, ExtraBits)

\* random.random() is k / 2^53 for an integer 0 <= k < 2^53; k in two limbs.
RandomFloat(k) == F64Normalised(1, k, ExtraBits - MantissaBits)

\* random.uniform(a, b) for ints a <= b: a + (b - a) * random().
uniform(a, b, u) == F64Add(F64FromInt(a), F64Mul(F64FromInt(b - a), u))

\* x > y on floats.
F64Greater(x, y) ==
    IF x.s = y.s THEN IF x.s = 1 THEN ~F64MagnitudeGeq(y, x) ELSE ~F64MagnitudeGeq(x, y)
    ELSE x.s = 1

\* Mutant of InsertDescFloat: an item goes in front of the items of equal value.
RECURSIVE InsertDescFloat_BeforeEqual(_, _)
InsertDescFloat_BeforeEqual(sorted, x) ==
    IF sorted = <<>> THEN <<x>>
    ELSE IF ~F64Greater(sorted[1][2], x[2]) THEN <<x>> \o sorted
         ELSE <<sorted[1]>> \o InsertDescFloat_BeforeEqual(Tail(sorted), x)

\* sorted(illness_scores.items(), key=lambda x: x[1], reverse=True) on float
\* scores: stable, descending.
RECURSIVE InsertDescFloat(_, _)
InsertDescFloat(sorted, x) ==
    IF sorted = <<>> THEN <<x>>
    ELSE IF F64Greater(x[2], sorted[1][2]) THEN <<x>> \o sorted
         ELSE <<sorted[1]>> \o InsertDescFloat(Tail(sorted), x)

RECURSIVE SortedDescFloat(_)
SortedDescFloat(items) ==
    IF items = <<>> THEN <<>>
    ELSE InsertDescFloat(SortedDescFloat(SubSeq(items, 1, Len(items) - 1)), items[Len(items)])

\* illness_scores after the outer loop: the int sum of illness i plus the
\* i-th random factor, in float64.
RECURSIVE IllnessScores(_, _, _)
IllnessScores(table, user_symptoms, factors) ==
    IF table = <<>> THEN <<>>
    ELSE Append(IllnessScores(SubSeq(table, 1, Len(table) - 1), user_symptoms, factors),
                <<table[Len(table)][1],
                  F64Add(F64FromInt(WeightedSum(table[Len(table)][2], user_symptoms)),
                         factors[Len(table)])>>)

\* calculate_diagnosis_score(user_symptoms), the i-th call of
\* random.uniform(0, 1) returning factors[i].
calculate_diagnosis_score(user_symptoms, factors) ==
    SortedDescFloat(IllnessScores(illnesses, user_symptoms, factors))

\* At most MaxReported symptoms are reported present.
MaxReported == 2

\* The dicts of the calls: the one medical_diagnostic_prediction builds, with
\* a key of value 1 for each symptom reported present, and the one with every
\* symptom as a key, of value 0 where it is not reported.
UserSymptoms ==
    UNION {{[symptom \in present |-> 1],
            [symptom \in IllnessSymptoms |-> IF symptom \in present THEN 1 ELSE 0]}
           : present \in {set \in SUBSET IllnessSymptoms : Cardinality(set) <= MaxReported}}

\* The draws of random.random() in the calls: the least and the greatest.
RandomDraws == {N2Zero, N2Sub(N2Pow(MantissaBits), <<0, 1>>)}
RandomFactors == {uniform(0, 1, RandomFloat(k)) : k \in RandomDraws}

\* Each behaviour of SpecScore is one call of calculate_diagnosis_score.
CallScore ==
    /\ call = NoCall
    /\ \E user_symptoms \in UserSymptoms, factors \in [1..Len(illnesses) -> RandomFactors] :
          call' = [fn |-> "calculate_diagnosis_score", arg |-> user_symptoms, factors |-> factors,
                   ret |-> calculate_diagnosis_score(user_symptoms, factors)]
    /\ UNCHANGED <<model, peer, styled, session>>

\* main() builds a MedicalDiagnosticPrediction and no DiagnosticAgentGUI.
InitScore ==
    /\ data = None
    /\ symptoms = None
    /\ conditions = None
    /\ prior_probs = None
    /\ conditional_probs = None
    /\ observed_symptoms = None
    /\ asked_symptoms = None
    /\ gui = None
    /\ last = None
    /\ peer = None
    /\ styled = None
    /\ call = NoCall

SpecScore == InitScore /\ [][CallScore]_vars

\* ================================================================== claims
SymptomSet == SeqToSet(symptoms)
ConditionSet == SeqToSet(conditions)

\* The session is Terminated once show_final_diagnosis has disabled the
\* answer buttons.
Terminated == gui.yes_button = DISABLED /\ gui.no_button = DISABLED
\* No symptom is pending once every symptom has been asked.
NoSymptomPending == SymptomSet \subseteq asked_symptoms

Accepted == Answer /\ last'.outcome # "return"

\* C2: every accepted Answer adds exactly one symptom, one that was not in
\* the Asked set before, so the Asked set grows by exactly one and no symptom
\* is recorded twice.
C2_AskedGrowsByOne ==
    [][Accepted
          => /\ \E s \in SymptomSet \ asked_symptoms :
                   /\ asked_symptoms' = asked_symptoms \cup {s}
                   /\ \E v \in AnswerValues : observed_symptoms' = Append(observed_symptoms, <<s, v>>)
             /\ Cardinality(asked_symptoms') = Cardinality(asked_symptoms) + 1
             /\ Cardinality(Keys(observed_symptoms')) = Len(observed_symptoms')]_vars

\* A second answer has been accepted.
C2_Witness ==
    /\ last = [op |-> "record_symptom", outcome |-> "ok"]
    /\ Cardinality(asked_symptoms) = 2
    /\ Len(observed_symptoms) = 2

IsPrefix(a, b) == Len(a) <= Len(b) /\ SubSeq(b, 1, Len(a)) = a

\* C3: the Asked set is always exactly the key set of the Observation set
\* and a subset of the symptom set; both start empty and only grow.
C3_AskedIsObservedKeys ==
    /\ (asked_symptoms = {} /\ observed_symptoms = <<>>)
    /\ [](asked_symptoms = Keys(observed_symptoms) /\ asked_symptoms \subseteq SymptomSet)
    /\ [][/\ asked_symptoms \subseteq asked_symptoms'
          /\ IsPrefix(observed_symptoms, observed_symptoms')
          /\ symptoms' = symptoms]_vars

\* Both sets have grown to the full symptom set of a two-symptom dataset.
C3_Witness ==
    /\ asked_symptoms = {"A", "B"}
    /\ Keys(observed_symptoms) = {"A", "B"}
    /\ Terminated

\* C4: select_next_question never returns a symptom of the asked-set it is
\* given, and returns None exactly when the asked-set contains every symptom.
C4_SelectNotAsked ==
    call.fn = "select_next_question"
        => /\ call.ret \notin call.arg
           /\ (call.ret = None <=> SymptomSet \subseteq call.arg)
           /\ (call.ret # None => call.ret \in SymptomSet)

\* select_next_question was given a non-empty asked-set and still found a
\* symptom to ask.
C4_Witness ==
    /\ call.fn = "select_next_question"
    /\ "A" \in call.arg
    /\ call.ret = "B"

\* The population variance of a symptom's conditional probabilities across
\* the conditions: the mean of the squares minus the square of the mean.
PopulationVariance(s) ==
    LET n == Len(conditions)
        xs == [i \in 1..n |-> conditional_probs[conditions[i]][s]]
        sq == [i \in 1..n |-> RMul(xs[i], xs[i])]
        m == RDiv(RSum(xs), <<n, 1>>)
    IN  RSub(RDiv(RSum(sq), <<n, 1>>), RMul(m, m))

NonNegative(p) == ~IsNaN(p) /\ p[1] >= 0

\* C6: for every observation set the mapping returned by infer_condition has
\* exactly the conditions as its keys (each once), every value is
\* non-negative, and the values sum to 1.
C6_PosteriorIsDistribution ==
    call.fn = "infer_condition"
        => /\ Keys(call.ret) = ConditionSet
           /\ Len(call.ret) = Cardinality(ConditionSet)
           /\ \A i \in 1..Len(call.ret) : NonNegative(call.ret[i][2])
           /\ RSum(Values(call.ret)) = One

\* The conditions with their float64 priors, in the order of self.conditions.
PriorItem(condition) == <<condition, PriorFloat(condition)>>
PriorDistribution == MapSeq(PriorItem, conditions)

\* The float64 sum of the priors, summed the way the call summed.
FloatTotal == Sum(Values(PriorDistribution), call.sum)

\* The next float64 above and below a positive x.
F64Succ(x) ==
    IF N2Inc(x.m) = N2Pow(MantissaBits) THEN [x EXCEPT !.m = N2Pow(MantissaBits - 1), !.e = x.e + 1]
    ELSE [x EXCEPT !.m = N2Inc(x.m)]
F64Pred(x) ==
    IF x.m = N2Pow(MantissaBits - 1) THEN [x EXCEPT !.m = N2Sub(N2Pow(MantissaBits), <<0, 1>>), !.e = x.e - 1]
    ELSE [x EXCEPT !.m = N2Sub(x.m, <<0, 1>>)]

\* x moved d floats up (d > 0) or down (d < 0).
RECURSIVE F64Step(_, _)
F64Step(x, d) ==
    IF d = 0 THEN x
    ELSE IF d > 0 THEN F64Step(F64Succ(x), d - 1)
    ELSE F64Step(F64Pred(x), d + 1)

\* v is at most k units in the last place away from p.
WithinUlps(v, p, k) == \E d \in (0 - k)..k : F64Step(p, d) = v

InferEmptyCalled == call.fn = "infer_condition" /\ call.arg = <<>>

RECURSIVE RawScore(_, _)
RawScore(c, obs) ==
    IF obs = <<>> THEN prior_probs[c]
    ELSE LET p == conditional_probs[c][Head(obs)[1]]
             factor == IF Head(obs)[2] = 1 THEN p ELSE <<p[2] - p[1], p[2]>>
             rest == RawScore(c, Tail(obs))
         IN  Rat(factor[1] * rest[1], factor[2] * rest[2])

AllRawScoresZero(obs) == \A c \in ConditionSet : RawScore(c, obs) = Zero

Uniform == Rat(1, Cardinality(ConditionSet))

\* C8: when the recorded answers give every condition a raw score of zero,
\* the posterior shown by the session is the uniform distribution
\* (1 / |conditions| for each condition) and the handler raised no error.
C8_UniformFallback ==
    (/\ ConditionSet # {}
     /\ observed_symptoms # <<>>
     /\ AllRawScoresZero(observed_symptoms))
        => /\ last.outcome # "ValueError"
           /\ gui.results.kind \in {"current", "final"}
           /\ \A i \in 1..Len(gui.results.rows) : gui.results.rows[i][2] = Uniform
           /\ gui.results.kind = "current" => gui.results.rows = <<<<conditions[1], Uniform>>>>
           /\ gui.results.kind = "final"
                 => gui.results.rows = [i \in 1..Len(conditions) |-> <<conditions[i], Uniform>>]

\* Two conditions, both with raw score zero after an accepted answer, are
\* shown with probability 1/2.
C8_Witness ==
    /\ Len(conditions) = 2
    /\ last = [op |-> "record_symptom", outcome |-> "ok"]
    /\ AllRawScoresZero(observed_symptoms)
    /\ gui.results.kind = "current"
    /\ gui.results.rows[1][2] = <<1, 2>>

\* C9: when the total raw score is not zero, the posterior of each condition
\* is its raw score divided by the sum of the raw scores of all conditions.
C9_PosteriorIsNormalizedScore ==
    LET obs == call.arg
        total == RSum([i \in 1..Len(conditions) |-> RawScore(conditions[i], obs)])
    IN  (call.fn = "infer_condition" /\ total # Zero)
            => /\ Len(call.ret) = Len(conditions)
               /\ \A i \in 1..Len(conditions) :
                     /\ call.ret[i][1] = conditions[i]
                     /\ RMul(call.ret[i][2], total) = RawScore(conditions[i], obs)

\* A posterior over two conditions for one answer of 1 and one answer of 0,
\* neither condition ruled out.
C9_Witness ==
    /\ call.fn = "infer_condition"
    /\ Len(call.arg) = 2
    /\ \E i, j \in 1..2 : call.arg[i][2] = 1 /\ call.arg[j][2] = 0
    /\ Len(call.ret) = 2
    /\ \A i \in 1..2 : RGreater(RawScore(conditions[i], call.arg), Zero)
    /\ call.ret[1][2] # call.ret[2][2]

\* C10: building the model from a dataset without records, without a symptom
\* column or with a condition that no record supports fails with a DataError.
C10_BuildRejectsBadDataset ==
    (/\ last.op = "__init__"
     /\ \/ Len(data) = 0
        \/ Len(symptoms) = 0
        \/ \E c \in ConditionSet : CountLabel(data, c) = 0)
        => last.outcome = "DataError"

\* C11: an Answer call whose value is outside {0, 1} is rejected: the pending
\* symptom is not added to the Asked set, nothing is recorded in the
\* Observation set, and the same symptom remains pending.  Stated for the
\* datasets that have records.
C11_OtherValueRejected ==
    [][(AnswerOther /\ data # <<>>)
          => /\ UNCHANGED <<observed_symptoms, asked_symptoms>>
             /\ gui'.question_label = gui.question_label]_vars

\* The posterior of condition c for the observations obs, from the raw
\* scores: the score over the total, or 1 / |conditions| for a total of 0.
TotalRawScore(obs) == RSum([i \in 1..Len(conditions) |-> RawScore(conditions[i], obs)])
ExpectedPosterior(c, obs) ==
    IF TotalRawScore(obs) = Zero THEN Uniform ELSE RDiv(RawScore(c, obs), TotalRawScore(obs))

\* rows is the mapping condition -> posterior for obs, each condition once.
RowsArePosterior(rows, obs) ==
    /\ Len(rows) = Len(conditions)
    /\ \A c \in ConditionSet :
          \E i \in 1..Len(rows) : rows[i] = <<c, ExpectedPosterior(c, obs)>>

C13_TerminatesWithLastSymptom ==
    [][Accepted
          => /\ Terminated' <=> asked_symptoms' = SymptomSet
             /\ Terminated' <=> Len(observed_symptoms') = Len(symptoms)
             /\ Len(observed_symptoms') <= Len(symptoms)]_vars

DiscoveryRank(c) == CHOOSE i \in 1..Len(conditions) : conditions[i] = c

\* C15: the ranked result of a Terminated session lists every condition
\* exactly once, in descending order of probability, conditions of equal
\* probability in the order in which their labels were discovered; the same
\* holds when the probabilities are those of the uniform fallback.
C15_RankedResult ==
    gui.results.kind = "final"
      => LET rows == gui.results.rows
         IN  /\ Len(rows) = Len(conditions)
             /\ \A c \in ConditionSet : \E i \in 1..Len(rows) : rows[i][1] = c
             /\ \A i, j \in 1..Len(rows) :
                   i < j => /\ ~RGreater(rows[j][2], rows[i][2])
                            /\ rows[i][2] = rows[j][2]
                                  => DiscoveryRank(rows[i][1]) < DiscoveryRank(rows[j][1])

\* A final result on three conditions in which the first and the third
\* discovered condition tie ahead of the second.
C15_Witness ==
    /\ gui.results.kind = "final"
    /\ Len(conditions) = 3
    /\ gui.results.rows[1][1] = conditions[1]
    /\ gui.results.rows[2][1] = conditions[3]
    /\ gui.results.rows[1][2] = gui.results.rows[2][2]
    /\ RGreater(gui.results.rows[2][2], gui.results.rows[3][2])

\* The symptoms with their variances, in column order.
VarianceItems ==
    LET Item(s) == <<s, PopulationVariance(s)>> IN MapSeq(Item, symptoms)

\* Item i is asked before item j: its variance is greater, or neither
\* variance is greater and it is the earlier column.
AskedBefore(items, i, j) ==
    \/ RGreater(items[i][2], items[j][2])
    \/ ~RGreater(items[j][2], items[i][2]) /\ i < j

\* The place of item j in the order of descending variance, and the symptom
\* at place k.
StaticRank(items, j) == 1 + Cardinality({i \in 1..Len(items) : AskedBefore(items, i, j)})
StaticSymptom(items, k) == items[CHOOSE j \in 1..Len(items) : StaticRank(items, j) = k][1]

\* The symptoms of the answers are the first Len(answers) symptoms in the
\* order of descending variance.
InStaticOrder(items, answers) ==
    \A k \in 1..Len(answers) : answers[k][1] = StaticSymptom(items, k)

\* The posteriors for the observations obs as <<condition, posterior>> items
\* in the order of self.conditions, from the raw scores.
RawScores(obs) == LET Item(c) == <<c, RawScore(c, obs)>> IN MapSeq(Item, conditions)
PosteriorOfScores(scores, total) ==
    LET Item(it) == <<it[1], IF total = Zero THEN Uniform ELSE RDiv(it[2], total)>>
    IN  MapSeq(Item, scores)
ExpectedPosteriors(obs) == PosteriorOfScores(RawScores(obs), RSum(Values(RawScores(obs))))

\* Item i of the posteriors post is the one the handler shows after an
\* answer: of greatest posterior, the first such item.
Leading(post, i) ==
    \A j \in 1..Len(post) :
       \/ RGreater(post[i][2], post[j][2])
       \/ post[i][2] = post[j][2] /\ i <= j

\* What a session shows when the posteriors of its accepted answers are post,
\* their number is k and the symptoms with their variances are items, ended
\* or not.
Shown(post, items, k, ended) ==
    IF ended
    THEN /\ gui.question_label = "Final Diagnosis"
         /\ gui.end_button = DISABLED
         /\ gui.results.kind = "final"
         /\ Len(gui.results.rows) = Len(post)
         /\ SeqToSet(gui.results.rows) = SeqToSet(post)
    ELSE /\ k < Len(symptoms)
         /\ gui.question_label = StaticSymptom(items, k + 1)
         /\ gui.end_button = NORMAL
         /\ IF k = 0 THEN gui.results.kind = "empty"
            ELSE /\ gui.results.kind = "current"
                 /\ Len(gui.results.rows) = 1
                 /\ \E i \in 1..Len(post) :
                       Leading(post, i) /\ gui.results.rows[1] = post[i]

\* What a session on a dataset with records shows after the accepted answers
\* answers (symptom and value, in the order given), ended or not.
ShownAfter(answers, ended) ==
    Shown(ExpectedPosteriors(answers), VarianceItems, Len(answers), ended)

\* What a session on a dataset without records shows.
ShownWithoutRecords(ended) ==
    IF ended
    THEN /\ gui.question_label = "Final Diagnosis"
         /\ gui.end_button = DISABLED
         /\ gui.results = [kind |-> "final", rows |-> <<>>]
    ELSE /\ gui.question_label = symptoms[1]
         /\ gui.end_button = NORMAL
         /\ gui.results.kind = "empty"

\* C16: two sessions on the same dataset that are given the same sequence of
\* Answer and Finish calls show the same pending questions and the same
\* posteriors after every step: what a session has recorded and what it
\* shows is a function of the dataset, of the accepted answers in their
\* order and of whether the session has ended, and of nothing else.
C16_ShownIsFunctionOfInputs ==
    /\ InStaticOrder(VarianceItems, observed_symptoms)
    /\ asked_symptoms = Keys(observed_symptoms)
    /\ IF data = <<>> THEN ShownWithoutRecords(Terminated)
       ELSE ShownAfter(observed_symptoms, Terminated)

\* A session on three conditions that has accepted one answer and shows the
\* next question.
C16_Witness ==
    /\ ~Terminated
    /\ Len(conditions) = 3
    /\ Len(observed_symptoms) = 1
    /\ gui.results.kind = "current"
    /\ gui.question_label = StaticSymptom(VarianceItems, 2)
    /\ gui.results.rows[1][1] # conditions[1]

\* The records of the dataset labelled c, and among them those with value 1
\* in the column of symptom s.
RecordsOf(c) == {i \in 1..Len(data) : data[i][2] = c}
RecordsWith(c, s) ==
    {i \in RecordsOf(c) : \E col \in 1..Len(symptoms) : symptoms[col] = s /\ data[i][1][col] = 1}

\* C17: for every dataset with at least one record, the prior of every
\* condition is the number of records with that label over the number of all
\* records, there is a prior for exactly the labels of the dataset, and the
\* priors sum to 1.
C17_PriorsAreFrequencies ==
    data # <<>>
      => /\ DOMAIN prior_probs = {data[i][2] : i \in 1..Len(data)}
         /\ DOMAIN prior_probs = ConditionSet
         /\ \A c \in ConditionSet :
               /\ prior_probs[c][2] > 0
               /\ prior_probs[c][1] * Len(data) = Cardinality(RecordsOf(c)) * prior_probs[c][2]
         /\ RSum(MapSeq(LAMBDA c : prior_probs[c], conditions)) = One

\* A model built from four records of three conditions.
C17_Witness ==
    /\ last.op = "__init__"
    /\ Len(data) = 4
    /\ Len(conditions) = 3
    /\ prior_probs[conditions[1]] # prior_probs[conditions[2]]

\* C18: for every dataset, the conditional table has a value for every pair
\* of a condition and a symptom column, the value is the number of records of
\* the condition with the symptom over the number of records of the
\* condition, and it lies in [0, 1].
C18_ConditionalsAreMeans ==
    /\ DOMAIN conditional_probs = ConditionSet
    /\ \A c \in ConditionSet :
          /\ DOMAIN conditional_probs[c] = SymptomSet
          /\ \A s \in SymptomSet :
                LET p == conditional_probs[c][s]
                IN  /\ p[2] > 0
                    /\ p[1] * Cardinality(RecordsOf(c)) = Cardinality(RecordsWith(c, s)) * p[2]
                    /\ 0 <= p[1]
                    /\ p[1] <= p[2]

\* A model of two symptoms and two conditions with a conditional probability
\* strictly between 0 and 1.
C18_Witness ==
    /\ last.op = "__init__"
    /\ Len(symptoms) = 2
    /\ Len(conditions) >= 2
    /\ \E c \in ConditionSet, s \in SymptomSet :
          /\ conditional_probs[c][s] # Zero
          /\ conditional_probs[c][s] # One

\* The example dataset: symptom columns A and B, three records of X with
\* A = 1 and B = 0, one record of Y with A = 0 and B = 1.
ExampleData ==
    <<<< <<1, 0>>, "X" >>, << <<1, 0>>, "X" >>, << <<1, 0>>, "X" >>, << <<0, 1>>, "Y" >>>>

\* C19: on the example dataset the two symptoms have the same variance and
\* a started session first asks A, the first column; after the answer A = 1
\* the leading condition is X with probability 1 (and Y has probability 0).
C19_ExampleSession ==
    (data = ExampleData /\ symptoms = <<"A", "B">>)
      => /\ PopulationVariance("A") = PopulationVariance("B")
         /\ (observed_symptoms = <<>> /\ ~Terminated) => gui.question_label = "A"
         /\ observed_symptoms # <<>> => observed_symptoms[1][1] = "A"
         /\ (observed_symptoms = << <<"A", 1>> >> /\ ~Terminated)
               => gui.results = [kind |-> "current", rows |-> << <<"X", One>> >>]
         /\ (observed_symptoms = << <<"A", 1>> >> /\ Terminated)
               => gui.results = [kind |-> "final", rows |-> << <<"X", One>>, <<"Y", Zero>> >>]

\* The session on the example dataset after the answer A = 1.
C19_Witness ==
    /\ data = ExampleData
    /\ symptoms = <<"A", "B">>
    /\ observed_symptoms = << <<"A", 1>> >>
    /\ gui.results.kind = "current"
    /\ gui.question_label = "B"

ShowsLeading(g, post, i) ==
    \/ g.results = [kind |-> "current", rows |-> <<post[i]>>]
    \/ /\ g.results.kind = "final"
       /\ g.results.rows # <<>>
       /\ g.results.rows[1] = post[i]

\* The handler went on to the next question with the answered symptom
\* counted as asked.
RequestedNext(g, asked) ==
    IF SymptomSet \subseteq asked THEN g.question_label = "Final Diagnosis"
    ELSE g.question_label = select_next_question(asked) /\ g.question_label \notin asked

\* The step shows the leading condition of the posteriors post and then
\* requests the next symptom.
ExposesThenRequests(post) ==
    /\ \E i \in 1..Len(post) : Leading(post, i) /\ ShowsLeading(gui', post, i)
    /\ RequestedNext(gui', asked_symptoms')

\* C21: after every accepted Answer the leading condition and probability
\* shown come from the posterior over the observations that already include
\* the answer just recorded, the leading condition has the greatest
\* probability of that posterior and is the first such condition in
\* condition order, and the next symptom is requested after that.
C21_LeadingFromUpdatedPosterior ==
    [][Accepted => ExposesThenRequests(ExpectedPosteriors(observed_symptoms'))]_vars

\* The raw score of condition c for observations that may name symptoms
\* without an entry in the conditional table: such a symptom counts with the
\* probability 1e-6.
RECURSIVE FloorScore(_, _)
FloorScore(c, obs) ==
    IF obs = <<>> THEN prior_probs[c]
    ELSE LET s == Head(obs)[1]
             p == IF s \in DOMAIN conditional_probs[c] THEN conditional_probs[c][s]
                  ELSE <<1, 1000000>>
             factor == IF Head(obs)[2] = 1 THEN p ELSE <<p[2] - p[1], p[2]>>
             rest == FloorScore(c, Tail(obs))
         IN  Rat(factor[1] * rest[1], factor[2] * rest[2])

FloorScores(obs) == LET Item(c) == <<c, FloorScore(c, obs)>> IN MapSeq(Item, conditions)

\* C22: given an observation for a symptom that has no entry in the
\* conditional table, infer_condition does not fail: it takes 1e-6 as the
\* conditional probability of that symptom for every condition (factor 1e-6
\* for the answer 1, 1 - 1e-6 for the answer 0) and returns the normalized
\* scores for all the conditions.
C22_FloorForUnknownSymptom ==
    (call.fn = "infer_condition" /\ \E i \in 1..Len(call.arg) : call.arg[i][1] \notin SymptomSet)
      => /\ call.ret = PosteriorOfScores(FloorScores(call.arg), RSum(Values(FloorScores(call.arg))))
         /\ \A i \in 1..Len(call.ret) : NonNegative(call.ret[i][2])
         /\ conditions # <<>> => RSum(Values(call.ret)) = One

\* A posterior over two conditions for the answer 1 on the unknown symptom
\* and an answer on a known one, which is not the uniform distribution.
C22_Witness ==
    /\ call.fn = "infer_condition"
    /\ Len(call.arg) = 2
    /\ call.arg[1] = <<"Q", 1>>
    /\ call.arg[2][1] \in SymptomSet
    /\ Len(call.ret) = 2
    /\ call.ret[1][2] # call.ret[2][2]

\* C23: the dataset, the symptom list, the condition list, the prior table
\* and the conditional table are unchanged by every operation (Answer,
\* Finish, infer_condition, select_next_question); a call of infer_condition
\* or select_next_question leaves the Observation and Asked sets unchanged,
\* also the calls made inside Finish and inside an accepted Answer, which
\* adds exactly the answered pair.  The steps that change call are the
\* calls of the two functions from outside.
C23_TablesAndArgumentsUnchanged ==
    [][/\ UNCHANGED <<data, symptoms, conditions, prior_probs, conditional_probs>>
       /\ (call' # call \/ Finish)
             => UNCHANGED <<observed_symptoms, asked_symptoms>>
       /\ Accepted
             => /\ Len(observed_symptoms') = Len(observed_symptoms) + 1
                /\ SubSeq(observed_symptoms', 1, Len(observed_symptoms)) = observed_symptoms
                /\ asked_symptoms' = asked_symptoms \cup {observed_symptoms'[Len(observed_symptoms')][1]}]_vars

\* infer_condition was called from outside during a session that has
\* recorded an answer and then ended.
C23_Witness ==
    /\ call.fn = "infer_condition"
    /\ call.arg # <<>>
    /\ observed_symptoms # <<>>
    /\ Terminated
    /\ conditions # <<>>

\* The widgets g are what a session shows when the posteriors of its accepted
\* answers are post, their number is k and the symptoms with their variances
\* are items, ended or not.
WidgetsShow(g, post, items, k, ended) ==
    IF ended
    THEN /\ g.question_label = "Final Diagnosis"
         /\ g.end_button = DISABLED
         /\ g.results.kind = "final"
         /\ Len(g.results.rows) = Len(post)
         /\ SeqToSet(g.results.rows) = SeqToSet(post)
    ELSE /\ k < Len(symptoms)
         /\ g.question_label = StaticSymptom(items, k + 1)
         /\ g.end_button = NORMAL
         /\ IF k = 0 THEN g.results.kind = "empty"
            ELSE /\ g.results.kind = "current"
                 /\ Len(g.results.rows) = 1
                 /\ \E i \in 1..Len(post) : Leading(post, i) /\ g.results.rows[1] = post[i]

\* The session with the widgets g, the observations obs and the Asked set
\* asked is in the state of a session that ran alone on the dataset and was
\* given the answers obs, ended or not.
AsIfAlone(g, obs, asked) ==
    /\ InStaticOrder(VarianceItems, obs)
    /\ asked = Keys(obs)
    /\ IF data = <<>>
       THEN IF g.yes_button = DISABLED
            THEN g.question_label = "Final Diagnosis" /\ g.results = [kind |-> "final", rows |-> <<>>]
            ELSE g.question_label = symptoms[1] /\ g.results.kind = "empty"
       ELSE WidgetsShow(g, ExpectedPosteriors(obs), VarianceItems, Len(obs), g.yes_button = DISABLED)

\* C24: two sessions on the same dataset whose Answer and Finish operations
\* interleave in any order: an operation of one session changes no state of
\* the other, and after every step each session has the pending question,
\* the observations and the result of a session that ran alone with its own
\* answers.
C24_SessionsAreIndependent ==
    [][/\ peer' # peer => UNCHANGED <<observed_symptoms, asked_symptoms, gui>>
       /\ <<observed_symptoms, asked_symptoms, gui>>' # <<observed_symptoms, asked_symptoms, gui>>
             => peer' = peer
       /\ AsIfAlone(gui', observed_symptoms', asked_symptoms')
       /\ AsIfAlone(peer'.gui, peer'.observed_symptoms, peer'.asked_symptoms)]_vars

\* Both sessions have accepted one answer, with different values, and one
\* of them has ended.
C24_Witness ==
    /\ Len(conditions) = 2
    /\ Len(symptoms) = 2
    /\ Len(observed_symptoms) = 1
    /\ Len(peer.observed_symptoms) = 1
    /\ observed_symptoms[1][2] # peer.observed_symptoms[1][2]
    /\ Terminated
    /\ peer.gui.yes_button = NORMAL
    /\ peer.gui.results.kind = "current"

\* The observation dicts with the items of observed in another order of
\* insertion.
SameItems(observed) ==
    {other \in ObservationSets : SeqToSet(other) = SeqToSet(observed) /\ other # observed}

InferFloatCalled == call.fn = "infer_condition" /\ "sum" \in DOMAIN call

\* C25 as stated: the posterior returned by infer_condition depends only on
\* the set of (symptom, answer) pairs observed, not on the order in which
\* they were recorded.
C25_PosteriorIgnoresOrder ==
    InferFloatCalled
        => \A other \in SameItems(call.arg) :
              infer_condition_float(PriorScores, ConditionalsFloat, other, call.sum) = call.ret

\* v and w are the same float64 or k units in the last place apart at most.
CloseFloats(v, w, k) == v = w \/ (v.m # N2Zero /\ w.m # N2Zero /\ WithinUlps(v, w, k))

ClosePosteriors(post, other, k) ==
    /\ Len(post) = Len(other)
    /\ \A i \in 1..Len(post) : post[i][1] = other[i][1] /\ CloseFloats(post[i][2], other[i][2], k)

\* C25 as amended: the posterior of infer_condition depends only on the set
\* of (symptom, answer) pairs up to float64 rounding: in exact arithmetic it
\* is the same for every recording order, and the float64 values for two
\* recording orders are at most 4 * (number of pairs) + 2 * (number of
\* conditions) units in the last place apart.
C25_PosteriorIgnoresOrderUpToRounding ==
    InferFloatCalled
        => \A other \in SameItems(call.arg) :
              /\ infer_condition(other) = infer_condition(call.arg)
              /\ ClosePosteriors(call.ret,
                                 infer_condition_float(PriorScores, ConditionalsFloat, other, call.sum),
                                 4 * Len(call.arg) + 2 * Len(conditions))

\* infer_condition was called with two pairs, and with the same pairs
\* recorded in the other order its float64 posterior is another one, while
\* the exact posterior has no zero.
C25_Witness ==
    /\ InferFloatCalled
    /\ Len(call.arg) = 2
    /\ \A item \in SeqToSet(infer_condition(call.arg)) : item[2] # Zero /\ ~IsNaN(item[2])
    /\ \E other \in SameItems(call.arg) :
          infer_condition_float(PriorScores, ConditionalsFloat, other, call.sum) # call.ret

\* The symptoms the step adds to the observations.
RecordedNow == Keys(observed_symptoms') \ Keys(observed_symptoms)

\* C26: in every accepted Answer the symptom that record_symptom records is
\* the symptom that ask_next_question displayed last, the one on the
\* question label when the answer is given: an answer is never attributed
\* to a symptom other than the one shown.
C26_AnswerRecordsDisplayedSymptom ==
    [][Accepted => RecordedNow = {gui.question_label}]_vars

\* The widgets of a Terminated session: the answer buttons are disabled and
\* the question label shows no symptom.
ShowsNoQuestion(g) ==
    /\ g.yes_button = DISABLED
    /\ g.no_button = DISABLED
    /\ g.question_label \notin SymptomSet

\* C27: Terminated is absorbing.  Once show_final_diagnosis has run, no
\* Answer or Finish event (button or Left / Right / End key) makes a symptom
\* pending again, enables answering again, or changes the Observation or
\* Asked set.
C27_TerminatedIsAbsorbing ==
    /\ [](Terminated => ShowsNoQuestion(gui))
    /\ [][Terminated => ShowsNoQuestion(gui') /\ UNCHANGED <<observed_symptoms, asked_symptoms>>]_vars

\* The session was ended by Finish after one answer, with a symptom still
\* unasked, and shows the final diagnosis.
C27_Witness ==
    /\ Terminated
    /\ data # <<>>
    /\ last = [op |-> "show_final_diagnosis", outcome |-> "ok"]
    /\ Len(observed_symptoms) = 1
    /\ SymptomSet \ asked_symptoms # {}
    /\ gui.results.kind = "final"

\* C28: Finish is idempotent and leaves the observations untouched.
\* show_final_diagnosis invoked again on a Terminated session (the End key
\* is not guarded) changes neither the Observation nor the Asked set, and
\* the ranked result it produces is the one already shown.
C28_FinishIsIdempotent ==
    [][(Finish /\ Terminated)
          => /\ UNCHANGED <<observed_symptoms, asked_symptoms>>
             /\ gui' = gui
             /\ gui'.results = [kind |-> "final", rows |-> SortedDesc(infer_condition(observed_symptoms))]]_vars

\* Every symptom was answered, which ended the session, and Finish was
\* invoked after that: it shows the ranking of two conditions.
C28_Witness ==
    /\ last = [op |-> "show_final_diagnosis", outcome |-> "ok"]
    /\ data # <<>>
    /\ Len(observed_symptoms) = 2
    /\ NoSymptomPending
    /\ Terminated
    /\ Len(gui.results.rows) = 2

\* prob of every condition at the end of the inner loop of infer_condition,
\* in the order of the conditions.
LoopScores(obs) == LET Raw(condition) == Score(condition, obs) IN MapSeq(Raw, conditions)

\* From the scores before and the posterior postBefore to the scores after
\* and the posterior postAfter: a zero score stays zero, and a zero
\* posterior becomes positive only when every score after is zero and
\* postAfter is the uniform distribution.
ZeroStaysZero(before, after, postBefore, postAfter) ==
    \A i \in 1..Len(conditions) :
        /\ before[i] = Zero => after[i] = Zero
        /\ (postBefore[i][2] = Zero /\ postAfter[i][2] # Zero)
              => /\ \A j \in 1..Len(conditions) : after[j] = Zero
                 /\ \A j \in 1..Len(conditions) : postAfter[j] = <<conditions[j], Rat(1, Len(conditions))>>

\* C29: a condition whose raw score is zero for an observation set has raw
\* score zero for every extension of it, so along a session a condition
\* whose posterior reached 0 gets a positive posterior again only at a step
\* where every raw score is zero and the uniform fallback is returned.
C29_ZeroScoreStaysZero ==
    [][Accepted => ZeroStaysZero(LoopScores(observed_symptoms), LoopScores(observed_symptoms'),
                                 infer_condition(observed_symptoms), infer_condition(observed_symptoms'))]_vars

\* The first answer ruled out the first condition and the second answer
\* ruled out the other one: the uniform fallback made both positive again.
C29_Witness ==
    /\ Len(conditions) = 2
    /\ Len(observed_symptoms) = 2
    /\ last = [op |-> "record_symptom", outcome |-> "ok"]
    /\ Score(conditions[1], SubSeq(observed_symptoms, 1, 1)) = Zero
    /\ Score(conditions[2], SubSeq(observed_symptoms, 1, 1)) # Zero
    /\ \A c \in ConditionSet : Score(c, observed_symptoms) = Zero
    /\ Lookup(infer_condition(observed_symptoms), conditions[1]) = Rat(1, 2)

\* The last event was an Answer that was accepted.
AfterAcceptedAnswer == last.op = "record_symptom" /\ last.outcome # "return"

\* The first row of the ranked result in g is item: the condition and the
\* probability that the label of record_symptom names for the posteriors
\* post, which the results frame still holds unless that Answer was the last.
FirstRowIsLeading(g, post, item) ==
    /\ g.results.kind = "final"
    /\ g.results.rows # <<>>
    /\ g.results.rows[1] = item
    /\ item = <<MaxByValue(post), Lookup(post, MaxByValue(post))>>

\* C30: when Finish is invoked immediately after an accepted Answer, the
\* first entry of the ranked result is the same condition, with the same
\* probability, as the leading condition exposed by that Answer: the first
\* maximum of record_symptom agrees with the stable descending sort of
\* show_final_diagnosis, also when probabilities are tied.
C30_FinishAgreesWithLeading ==
    [][(Finish /\ AfterAcceptedAnswer)
          => /\ gui.results.rows # <<>>
             /\ FirstRowIsLeading(gui', infer_condition(observed_symptoms), gui.results.rows[1])]_vars

\* C31: the plain and the styled DiagnosticAgentGUI implement the same
\* session machine.  For the same dataset and the same sequence of Answer
\* and Finish events both are at the same pending question, have the same
\* Observation and Asked sets, show the same leading condition, and have
\* terminated or not alike with the same final ranking.
C31_VariantsAgree ==
    /\ styled.observed_symptoms = observed_symptoms
    /\ styled.asked_symptoms = asked_symptoms
    /\ styled.gui = gui

\* A call of calculate_diagnosis_score has returned.
ScoreCalled == call.fn = "calculate_diagnosis_score"

\* For the illnesses in definition order: the weighted symptom sums in the
\* call, the places in the returned ranking and the scores there.
ScoreSums == LET S(illness) == WeightedSum(illness[2], call.arg) IN MapSeq(S, illnesses)
ScoreRanks ==
    LET P(illness) == CHOOSE p \in 1..Len(call.ret) : call.ret[p][1] = illness[1]
    IN MapSeq(P, illnesses)
ScoreValues == LET V(illness) == Lookup(call.ret, illness[1]) IN MapSeq(V, illnesses)

\* Every illness of a strictly greater sum is ranked ahead.
AheadBySum(sums, ranks) ==
    \A i, j \in 1..Len(sums) : sums[i] > sums[j] => ranks[i] < ranks[j]

\* C32: in calculate_diagnosis_score, whatever random factors are drawn, an
\* illness whose weighted symptom sum is strictly greater than another
\* illness's sum is ranked ahead of it, so that the random factor decides
\* the order among illnesses of equal sums only.
C32_GreaterSumAhead == ScoreCalled => AheadBySum(ScoreSums, ScoreRanks)

\* Illness i, of the strictly greater sum or of the same sum and the greater
\* factor than illness j, has a score at least as great and is ranked ahead
\* of j unless the two scores are equal and j is defined first.
AheadUnlessTied(sums, factors, ranks, scores) ==
    \A i, j \in 1..Len(sums) :
        (\/ sums[i] > sums[j]
         \/ sums[i] = sums[j] /\ F64Greater(factors[i], factors[j]))
            => /\ ~F64Greater(scores[j], scores[i])
               /\ \/ ranks[i] < ranks[j]
                  \/ scores[i] = scores[j] /\ j < i

\* C32, amended: the illness of the strictly greater sum has a float64 score
\* at least as great and is ranked ahead unless the two scores are equal
\* after rounding, when the illness defined first in self.illnesses is
\* ahead; among equal sums the illness of the greater factor is ahead under
\* the same proviso.
C32_GreaterSumAheadUnlessTied ==
    ScoreCalled => AheadUnlessTied(ScoreSums, call.factors, ScoreRanks, ScoreValues)

\* The sort moved an illness of a greater sum and a smaller factor ahead of
\* an illness defined before it whose sum is smaller and not zero.
MovedAhead(sums, factors, ranks) ==
    \E i, j \in 1..Len(sums) :
        /\ j < i
        /\ sums[i] > sums[j]
        /\ sums[j] > 0
        /\ F64Greater(factors[j], factors[i])
        /\ ranks[i] < ranks[j]

C32_Witness == ScoreCalled /\ MovedAhead(ScoreSums, call.factors, ScoreRanks)

====
